---- MODULE Spec2Model ----
(***************************************************************************)
(* Model of src/reply.py: the ChickNorrisTV tile solver.                   *)
(*                                                                         *)
(* A tile identifier is a Python string, modelled as the sequence of its   *)
(* characters (<<"C","3">> is 'C3', <<>> is the empty string), so that the *)
(* fixed-width storage of the numpy grid (dtype 'U2') can be modelled as   *)
(* the truncation it is.  A coordinate is <<x, y>> with x the row index    *)
(* and y the column index, as the code indexes self.grid[x, y].            *)
(***************************************************************************)
EXTENDS Integers, Sequences, FiniteSets, TLC

VARIABLES
  golden_input,   \* the golden_points argument of __init__, a list of coordinates
  width,          \* self.width
  height,         \* self.height
  golden_points,  \* self.golden_points, the set built from golden_input
  golden_order,   \* the order in which iterating over self.golden_points yields it
  silver_points,  \* self.silver_points, coordinate -> bonus
  tiles,          \* self.tiles, tile_id -> <<cost, remaining count>>
  initial_tiles,  \* the tile table as __init__ received it
  tile_order,     \* the keys of self.tiles in insertion order
  grid,           \* self.grid, coordinate -> stored identifier
  best_score,     \* self.best_score
  best_solution,  \* self.best_solution
  start_time,     \* self.start_time
  now,            \* the last reading of time.time()
  stack,          \* the invocations of backtrack in progress
  pc,             \* "idle", "solving", "done" (solve returned), "raised", "scored",
                  \* "searched" (bfs returned)
  hist,           \* the last place_tile or remove_tile call of a client
  evaluated,      \* the number of complete grids solve has scored
  scored,         \* the complete grids solve has scored, in order
  result          \* what solve or calculate_score returned

vars == <<golden_input, width, height, golden_points, golden_order, silver_points,
          tiles, initial_tiles, tile_order, grid, best_score, best_solution,
          start_time, now, stack, pc, hist, evaluated, scored, result>>

(***************************************************************************)
(* Bounds of the model.                                                    *)
(***************************************************************************)
MaxGolden == 2
MaxSilver == 1
MaxTicks == 2
TickStep == 300

(***************************************************************************)
(* Program constants.                                                      *)
(***************************************************************************)
time_limit == 300
GridStrWidth == 2

Min(a, b) == IF a < b THEN a ELSE b

Range(s) == {s[i] : i \in 1..Len(s)}

TILE_DIRECTIONS ==
  (<<"3">> :> << <<0, 1>>, <<0, -1>> >>) @@
  (<<"5">> :> << <<1, 1>>, <<-1, -1>> >>) @@
  (<<"6">> :> << <<1, -1>>, <<-1, 1>> >>) @@
  (<<"7">> :> << <<0, 1>>, <<0, -1>>, <<1, -1>>, <<-1, 1>>, <<1, 1>>, <<-1, -1>> >>) @@
  (<<"9">> :> << <<-1, 1>>, <<1, -1>> >>) @@
  (<<"9", "6">> :> << <<1, -1>>, <<-1, 1>>, <<-1, 1>>, <<1, -1>> >>) @@
  (<<"A">> :> << <<-1, -1>>, <<1, 1>> >>) @@
  (<<"A", "5">> :> << <<-1, -1>>, <<1, 1>>, <<1, 1>>, <<-1, -1>> >>) @@
  (<<"B">> :> << <<0, 1>>, <<0, -1>>, <<-1, -1>>, <<1, 1>>, <<-1, 1>>, <<1, -1>> >>) @@
  (<<"C">> :> << <<1, 0>>, <<-1, 0>> >>) @@
  (<<"C", "3">> :> << <<0, 1>>, <<0, -1>>, <<1, 0>>, <<-1, 0>> >>) @@
  (<<"D">> :> << <<1, 0>>, <<-1, 0>>, <<-1, 1>>, <<1, -1>>, <<1, 1>>, <<-1, -1>> >>) @@
  (<<"E">> :> << <<-1, -1>>, <<1, 1>>, <<1, -1>>, <<-1, 1>>, <<1, 0>>, <<-1, 0>> >>) @@
  (<<"F">> :> << <<0, 1>>, <<0, -1>>, <<1, -1>>, <<-1, 1>>, <<-1, -1>>, <<1, 1>>,
                 <<1, 0>>, <<-1, 0>>, <<-1, 1>>, <<1, -1>>, <<1, 1>>, <<-1, -1>> >>)

(***************************************************************************)
(* Values of the Python types the code uses.                               *)
(***************************************************************************)
EmptyStr == <<>>
NegInf == [neg_inf |-> TRUE, v |-> 0]
Fin(n) == [neg_inf |-> FALSE, v |-> n]
NoneSolution == <<>>

\* self.best_solution = self.grid in the place of self.grid.copy(): the
\* solution is the live grid itself, not a grid of its own
LiveGrid == <<>>
SomeSolution_reference(g) == <<LiveGrid>>

\* self.grid.copy()
SomeSolution(g) == <<g>>

\* score >= best_score in the place of score > best_score
ScoreGe(a, b) ==
  IF b.neg_inf THEN TRUE
  ELSE IF a.neg_inf THEN FALSE
  ELSE a.v >= b.v

\* score > best_score on Python floats, float('-inf') included
ScoreGt(a, b) ==
  IF a.neg_inf THEN FALSE
  ELSE IF b.neg_inf THEN TRUE
  ELSE a.v > b.v

\* what a cell of np.zeros(..., dtype='U2') holds after being assigned s
GridStore(s) == SubSeq(s, 1, Min(Len(s), GridStrWidth))

Cells(w, h) == {<<x, y>> : x \in 0..(h - 1), y \in 0..(w - 1)}

is_valid(x, y) == 0 <= x /\ x < height /\ 0 <= y /\ y < width

(***************************************************************************)
(* place_tile and remove_tile, as functions of the live grid and tile      *)
(* table: the value returned (or the exception raised) and the grid and    *)
(* tile table the call leaves behind.                                      *)
(***************************************************************************)
\* place_tile without the occupied-cell test of line 94
place_tile_overwrite(x, y, tile_id) ==
  IF <<x, y>> \in golden_points \/ <<x, y>> \in DOMAIN silver_points
  THEN [ret |-> "False", grid |-> grid, tiles |-> tiles]
  ELSE IF tiles[tile_id][2] <= 0
  THEN [ret |-> "False", grid |-> grid, tiles |-> tiles]
  ELSE [ret |-> "True",
        grid |-> [grid EXCEPT ![<<x, y>>] = GridStore(tile_id)],
        tiles |-> [tiles EXCEPT ![tile_id] = <<tiles[tile_id][1], tiles[tile_id][2] - 1>>]]

\* place_tile without the inventory test of line 96
place_tile_no_count_test(x, y, tile_id) ==
  IF <<x, y>> \in golden_points \/ <<x, y>> \in DOMAIN silver_points
  THEN [ret |-> "False", grid |-> grid, tiles |-> tiles]
  ELSE IF grid[<<x, y>>] # EmptyStr
  THEN [ret |-> "False", grid |-> grid, tiles |-> tiles]
  ELSE [ret |-> "True",
        grid |-> [grid EXCEPT ![<<x, y>>] = GridStore(tile_id)],
        tiles |-> [tiles EXCEPT ![tile_id] = <<tiles[tile_id][1], tiles[tile_id][2] - 1>>]]

\* place_tile testing the silver points only on line 92
place_tile_no_golden_test(x, y, tile_id) ==
  IF <<x, y>> \in DOMAIN silver_points
  THEN [ret |-> "False", grid |-> grid, tiles |-> tiles]
  ELSE IF grid[<<x, y>>] # EmptyStr
  THEN [ret |-> "False", grid |-> grid, tiles |-> tiles]
  ELSE IF tiles[tile_id][2] <= 0
  THEN [ret |-> "False", grid |-> grid, tiles |-> tiles]
  ELSE [ret |-> "True",
        grid |-> [grid EXCEPT ![<<x, y>>] = GridStore(tile_id)],
        tiles |-> [tiles EXCEPT ![tile_id] = <<tiles[tile_id][1], tiles[tile_id][2] - 1>>]]

\* place_tile testing the golden points only on line 92
place_tile_no_silver_test(x, y, tile_id) ==
  IF <<x, y>> \in golden_points
  THEN [ret |-> "False", grid |-> grid, tiles |-> tiles]
  ELSE IF grid[<<x, y>>] # EmptyStr
  THEN [ret |-> "False", grid |-> grid, tiles |-> tiles]
  ELSE IF tiles[tile_id][2] <= 0
  THEN [ret |-> "False", grid |-> grid, tiles |-> tiles]
  ELSE [ret |-> "True",
        grid |-> [grid EXCEPT ![<<x, y>>] = GridStore(tile_id)],
        tiles |-> [tiles EXCEPT ![tile_id] = <<tiles[tile_id][1], tiles[tile_id][2] - 1>>]]

place_tile(x, y, tile_id) ==
  IF <<x, y>> \in golden_points \/ <<x, y>> \in DOMAIN silver_points
  THEN [ret |-> "False", grid |-> grid, tiles |-> tiles]
  ELSE IF grid[<<x, y>>] # EmptyStr
  THEN [ret |-> "False", grid |-> grid, tiles |-> tiles]
  ELSE IF tiles[tile_id][2] <= 0
  THEN [ret |-> "False", grid |-> grid, tiles |-> tiles]
  ELSE [ret |-> "True",
        grid |-> [grid EXCEPT ![<<x, y>>] = GridStore(tile_id)],
        tiles |-> [tiles EXCEPT ![tile_id] = <<tiles[tile_id][1], tiles[tile_id][2] - 1>>]]

remove_tile(x, y) ==
  LET tile_id == grid[<<x, y>>]
      emptied == [grid EXCEPT ![<<x, y>>] = EmptyStr]
  IN IF tile_id # EmptyStr
     THEN IF tile_id \in DOMAIN tiles
          THEN [ret |-> "None", grid |-> emptied,
                tiles |-> [tiles EXCEPT ![tile_id] = <<tiles[tile_id][1], tiles[tile_id][2] + 1>>]]
          ELSE [ret |-> "KeyError", grid |-> emptied, tiles |-> tiles]
     ELSE [ret |-> "None", grid |-> grid, tiles |-> tiles]

(***************************************************************************)
(* bfs(start, end) on grid g: the FIFO queue of (coordinate, path) pairs   *)
(* and the visited set of the while loop.  The result is the returned path *)
(* list, None, or the KeyError of a tile identifier that TILE_DIRECTIONS   *)
(* does not hold.                                                          *)
(***************************************************************************)
BfsPath(p) == [status |-> "path", path |-> p]
BfsNone == [status |-> "None", path |-> <<>>]
BfsKeyError == [status |-> "KeyError", path |-> <<>>]

\* the queue entries appended by the for loop over TILE_DIRECTIONS[tile_id]
RECURSIVE BfsExpand(_, _, _, _, _)
BfsExpand(dirs, k, pos, path, visited) ==
  IF k > Len(dirs) THEN <<>>
  ELSE LET nx == pos[1] + dirs[k][1]
           ny == pos[2] + dirs[k][2]
           rest == BfsExpand(dirs, k + 1, pos, path, visited)
       IN IF is_valid(nx, ny) /\ <<nx, ny>> \notin visited
          THEN << <<<<nx, ny>>, Append(path, pos)>> >> \o rest
          ELSE rest

\* the loop of bfs with the new entries put at the front of the queue
RECURSIVE BfsLoop_lifo(_, _, _, _)
BfsLoop_lifo(g, end, queue, visited) ==
  IF queue = <<>> THEN BfsNone
  ELSE LET pos == Head(queue)[1]
           path == Head(queue)[2]
           rest == Tail(queue)
       IN IF pos = end THEN BfsPath(path)
          ELSE IF pos \in visited THEN BfsLoop_lifo(g, end, rest, visited)
          ELSE LET visited2 == visited \cup {pos}
                   tile_id == g[pos]
               IN IF tile_id = EmptyStr
                  THEN BfsLoop_lifo(g, end, rest, visited2)
                  ELSE IF tile_id \notin DOMAIN TILE_DIRECTIONS
                  THEN BfsKeyError
                  ELSE BfsLoop_lifo(g, end,
                                    BfsExpand(TILE_DIRECTIONS[tile_id], 1, pos, path, visited2) \o rest,
                                    visited2)

RECURSIVE BfsLoop(_, _, _, _)
BfsLoop(g, end, queue, visited) ==
  IF queue = <<>> THEN BfsNone
  ELSE LET pos == Head(queue)[1]
           path == Head(queue)[2]
           rest == Tail(queue)
       IN IF pos = end THEN BfsPath(path)
          ELSE IF pos \in visited THEN BfsLoop(g, end, rest, visited)
          ELSE LET visited2 == visited \cup {pos}
                   tile_id == g[pos]
               IN IF tile_id = EmptyStr
                  THEN BfsLoop(g, end, rest, visited2)
                  ELSE IF tile_id \notin DOMAIN TILE_DIRECTIONS
                  THEN BfsKeyError
                  ELSE BfsLoop(g, end,
                               rest \o BfsExpand(TILE_DIRECTIONS[tile_id], 1, pos, path, visited2),
                               visited2)

bfs(g, start, end) == BfsLoop(g, end, << <<start, <<>> >> >>, {})

(***************************************************************************)
(* calculate_score on grid g.                                              *)
(***************************************************************************)
\* itertools.combinations(order, 2): pairs in the order of the iteration
RECURSIVE Combinations(_, _, _)
Combinations(order, i, j) ==
  IF i >= Len(order) THEN <<>>
  ELSE IF j > Len(order) THEN Combinations(order, i + 1, i + 2)
  ELSE << <<order[i], order[j]>> >> \o Combinations(order, i, j + 1)

RECURSIVE SumValues(_, _)
SumValues(f, keys) ==
  IF keys = {} THEN 0
  ELSE LET k == CHOOSE k \in keys : TRUE
       IN f[k] + SumValues(f, keys \ {k})

\* the inner loop counting a coordinate once: one already in visited_tiles
\* adds neither cost nor bonus
RECURSIVE ScorePath_dedup(_, _, _, _, _, _)
ScorePath_dedup(g, path, k, path_score, tile_costs, visited_tiles) ==
  IF k > Len(path)
  THEN [raised |-> FALSE, path_score |-> path_score,
        tile_costs |-> tile_costs, visited_tiles |-> visited_tiles]
  ELSE LET c == path[k]
           tile_id == g[c]
       IN IF tile_id = EmptyStr
          THEN ScorePath_dedup(g, path, k + 1, path_score, tile_costs, visited_tiles)
          ELSE IF tile_id \notin DOMAIN tiles
          THEN [raised |-> TRUE, path_score |-> path_score,
                tile_costs |-> tile_costs, visited_tiles |-> visited_tiles]
          ELSE LET costs2 == [tile_costs EXCEPT ![tile_id] = @ + tiles[tile_id][1]]
                   bonus == IF c \in DOMAIN silver_points THEN silver_points[c] ELSE 0
               IN IF c \in visited_tiles
                  THEN ScorePath_dedup(g, path, k + 1, path_score, tile_costs, visited_tiles)
                  ELSE ScorePath_dedup(g, path, k + 1, path_score + bonus, costs2,
                                       visited_tiles \cup {c})

\* the inner loop over one path: [raised, path_score, tile_costs, visited_tiles]
RECURSIVE ScorePath(_, _, _, _, _, _)
ScorePath(g, path, k, path_score, tile_costs, visited_tiles) ==
  IF k > Len(path)
  THEN [raised |-> FALSE, path_score |-> path_score,
        tile_costs |-> tile_costs, visited_tiles |-> visited_tiles]
  ELSE LET c == path[k]
           tile_id == g[c]
       IN IF tile_id = EmptyStr
          THEN ScorePath(g, path, k + 1, path_score, tile_costs, visited_tiles)
          ELSE IF tile_id \notin DOMAIN tiles
          THEN [raised |-> TRUE, path_score |-> path_score,
                tile_costs |-> tile_costs, visited_tiles |-> visited_tiles]
          ELSE LET costs2 == [tile_costs EXCEPT ![tile_id] = @ + tiles[tile_id][1]]
                   bonus == IF c \in DOMAIN silver_points THEN silver_points[c] ELSE 0
               IN IF c \in visited_tiles
                  THEN ScorePath(g, path, k + 1, path_score + bonus, costs2, visited_tiles)
                  ELSE ScorePath(g, path, k + 1, path_score + bonus, costs2,
                                 visited_tiles \cup {c})

ScoreValue(s) == [status |-> "value", score |-> s]
ScoreKeyError == [status |-> "KeyError", score |-> NegInf]

\* the loop of calculate_score going on to the next pair where line 71 returns
RECURSIVE ScoreLoop_skip_pair(_, _, _, _, _, _)
ScoreLoop_skip_pair(g, pairs, k, total_score, tile_costs, visited_tiles) ==
  IF k > Len(pairs)
  THEN ScoreValue(Fin(total_score - SumValues(tile_costs, DOMAIN tile_costs)))
  ELSE LET found == bfs(g, pairs[k][1], pairs[k][2])
       IN IF found.status = "KeyError" THEN ScoreKeyError
          ELSE IF found.status = "None" \/ found.path = <<>>
          THEN ScoreLoop_skip_pair(g, pairs, k + 1, total_score, tile_costs, visited_tiles)
          ELSE LET r == ScorePath(g, found.path, 1, 0, tile_costs, visited_tiles)
               IN IF r.raised THEN ScoreKeyError
                  ELSE ScoreLoop_skip_pair(g, pairs, k + 1, total_score + r.path_score,
                                           r.tile_costs, r.visited_tiles)

RECURSIVE ScoreLoop(_, _, _, _, _, _)
ScoreLoop(g, pairs, k, total_score, tile_costs, visited_tiles) ==
  IF k > Len(pairs)
  THEN ScoreValue(Fin(total_score - SumValues(tile_costs, DOMAIN tile_costs)))
  ELSE LET found == bfs(g, pairs[k][1], pairs[k][2])
       IN IF found.status = "KeyError" THEN ScoreKeyError
          ELSE IF found.status = "None" \/ found.path = <<>>
          THEN ScoreValue(NegInf)
          ELSE LET r == ScorePath(g, found.path, 1, 0, tile_costs, visited_tiles)
               IN IF r.raised THEN ScoreKeyError
                  ELSE ScoreLoop(g, pairs, k + 1, total_score + r.path_score,
                                 r.tile_costs, r.visited_tiles)

calculate_score(g) ==
  ScoreLoop(g, Combinations(golden_order, 1, 2), 1, 0, [id \in DOMAIN tiles |-> 0], {})

(***************************************************************************)
(* Inputs of the constructor.                                              *)
(***************************************************************************)
\* <<width, height>>
Dims == {<<3, 1>>, <<2, 2>>}

Bonuses == {3}

\* tile tables as parse_input builds them: <<tile_id, cost, count>> in
\* insertion order, identifiers of the catalog and identifiers absent from it
TileTables ==
  { << <<<<"C">>, 1, 5>> >>,
    << <<<<"3">>, 1, 1>>, <<<<"C", "3">>, 2, 1>> >>,
    << <<<<"A", "B", "C">>, 1, 1>> >>,
    << <<<<"A", "B", "C">>, 1, 1>>, <<<<"A", "B">>, 2, 1>> >> }

SeqsUpTo(S, n) == UNION {[1..k -> S] : k \in 0..n}

GoldenInputs(w, h) == SeqsUpTo(Cells(w, h), MaxGolden)

SilverInputs(w, h) ==
  SeqsUpTo({<<c[1], c[2], b>> : c \in Cells(w, h), b \in Bonuses}, MaxSilver)

\* the iteration orders a set may have
Orders(S) == {o \in [1..Cardinality(S) -> S] : Range(o) = S}

\* {tuple(point[:2]): point[2] for point in silver_points}: the last entry wins
SilverDict(silver_in) ==
  [c \in {<<silver_in[i][1], silver_in[i][2]>> : i \in 1..Len(silver_in)} |->
     LET last == CHOOSE i \in 1..Len(silver_in) :
                   /\ <<silver_in[i][1], silver_in[i][2]>> = c
                   /\ \A j \in (i + 1)..Len(silver_in) :
                        <<silver_in[j][1], silver_in[j][2]>> # c
     IN silver_in[last][3]]

TileDict(tiles_in) ==
  [id \in {tiles_in[i][1] : i \in 1..Len(tiles_in)} |->
     LET i == CHOOSE i \in 1..Len(tiles_in) : tiles_in[i][1] = id
     IN <<tiles_in[i][2], tiles_in[i][3]>>]

NoCall == [op |-> "none", x |-> 0, y |-> 0, id |-> EmptyStr, ret |-> "None",
           grid0 |-> <<>>, tiles0 |-> <<>>, placed |-> <<>>]

\* __init__ keeping the golden points as the list it is given
Construct_golden_list(w, h, golden_in, silver_in, tiles_in) ==
  /\ golden_input = golden_in
  /\ width = w
  /\ height = h
  /\ golden_points = Range(golden_in)
  /\ golden_order = golden_in
  /\ silver_points = SilverDict(silver_in)
  /\ tiles = TileDict(tiles_in)
  /\ initial_tiles = TileDict(tiles_in)
  /\ tile_order = [i \in 1..Len(tiles_in) |-> tiles_in[i][1]]
  /\ grid = [c \in Cells(w, h) |-> EmptyStr]
  /\ best_score = NegInf
  /\ best_solution = NoneSolution
  /\ start_time = 0
  /\ now = 0
  /\ stack = <<>>
  /\ hist = NoCall
  /\ evaluated = 0
  /\ scored = <<>>
  /\ result = <<>>

\* __init__
Construct(w, h, golden_in, silver_in, tiles_in) ==
  /\ golden_input = golden_in
  /\ width = w
  /\ height = h
  /\ golden_points = Range(golden_in)
  /\ golden_order \in Orders(Range(golden_in))
  /\ silver_points = SilverDict(silver_in)
  /\ tiles = TileDict(tiles_in)
  /\ initial_tiles = TileDict(tiles_in)
  /\ tile_order = [i \in 1..Len(tiles_in) |-> tiles_in[i][1]]
  /\ grid = [c \in Cells(w, h) |-> EmptyStr]
  /\ best_score = NegInf
  /\ best_solution = NoneSolution
  /\ start_time = 0
  /\ now = 0
  /\ stack = <<>>
  /\ hist = NoCall
  /\ evaluated = 0
  /\ scored = <<>>
  /\ result = <<>>

Init ==
  /\ pc = "idle"
  /\ \E d \in Dims :
       \E golden_in \in GoldenInputs(d[1], d[2]) :
         \E silver_in \in SilverInputs(d[1], d[2]) :
           \E tiles_in \in TileTables :
             Construct(d[1], d[2], golden_in, silver_in, tiles_in)

(***************************************************************************)
(* Calls of place_tile and remove_tile by a client of the class.  hist     *)
(* records the last call: its arguments, what it returned, the grid and    *)
(* tile table it started from and, for a remove_tile that directly follows *)
(* a successful place_tile at the same coordinate, the record of that      *)
(* place_tile.                                                             *)
(***************************************************************************)
UNCHANGED_input ==
  UNCHANGED <<golden_input, width, height, golden_points, golden_order,
              silver_points, initial_tiles, tile_order, start_time>>

PlaceTile(x, y, tile_id) ==
  /\ pc = "idle"
  /\ LET r == place_tile(x, y, tile_id)
     IN /\ grid' = r.grid
        /\ tiles' = r.tiles
        /\ hist' = [op |-> "place", x |-> x, y |-> y, id |-> tile_id, ret |-> r.ret,
                    grid0 |-> grid, tiles0 |-> tiles, placed |-> <<>>]
  /\ UNCHANGED_input
  /\ UNCHANGED <<best_score, best_solution, now, stack, pc, evaluated, scored, result>>

RemoveTile(x, y) ==
  /\ pc = "idle"
  /\ LET r == remove_tile(x, y)
     IN /\ grid' = r.grid
        /\ tiles' = r.tiles
        /\ hist' = [op |-> "remove", x |-> x, y |-> y, id |-> grid[<<x, y>>], ret |-> r.ret,
                    grid0 |-> grid, tiles0 |-> tiles,
                    placed |-> IF hist.op = "place" /\ hist.ret = "True"
                                  /\ hist.x = x /\ hist.y = y
                               THEN <<[id |-> hist.id, grid0 |-> hist.grid0,
                                       tiles0 |-> hist.tiles0]>>
                               ELSE <<>>]
  /\ UNCHANGED_input
  /\ UNCHANGED <<best_score, best_solution, now, stack, pc, evaluated, scored, result>>

Next ==
  \/ \E c \in DOMAIN grid : \E tile_id \in DOMAIN tiles : PlaceTile(c[1], c[2], tile_id)
  \/ \E c \in DOMAIN grid : RemoveTile(c[1], c[2])

Spec == Init /\ [][Next]_vars

(***************************************************************************)
(* solve: the recursion of backtrack as an explicit stack of invocations.  *)
(* A frame holds the arguments x and y, the position the invocation has    *)
(* reached (at: "entry" before line 110, "row" after the call of line 121, *)
(* "loop" at the head of the for loop of line 126 with i the index of the  *)
(* next tile type, "placed" after the call of line 128) and, as history,   *)
(* the grid and tile table the invocation was entered with.  The running   *)
(* invocation is the last frame.  Each evaluation of time.time() yields a  *)
(* reading of the clock that is not earlier than the previous reading;     *)
(* readings are counted from the construction of the solver.               *)
(***************************************************************************)
Times == {k * TickStep : k \in 0..MaxTicks}

Frame(x, y) == [x |-> x, y |-> y, at |-> "entry", i |-> 0, grid0 |-> grid, tiles0 |-> tiles]

Top == stack[Len(stack)]

Running == pc = "solving" /\ stack # <<>>

Return == SubSeq(stack, 1, Len(stack) - 1)

SetTop(f) == [stack EXCEPT ![Len(stack)] = f]

ReadClock(t) ==
  /\ t >= now
  /\ now' = t

\* the elapsed time taken from the previous reading, not from start_time
Expired_since_last_reading(t) == t - now > time_limit

Expired(t) == t - start_time > time_limit

\* solve() is called: line 131
SolveCall ==
  /\ pc = "idle"
  /\ pc' = "solving"
  /\ stack' = <<Frame(0, 0)>>
  /\ UNCHANGED_input
  /\ UNCHANGED <<tiles, grid, best_score, best_solution, now, hist,
                 evaluated, scored, result>>

\* lines 110-111: the budget is exceeded, the invocation returns
BtDeadline ==
  /\ Running /\ Top.at = "entry"
  /\ \E t \in Times : Expired(t) /\ ReadClock(t)
  /\ stack' = Return
  /\ UNCHANGED_input
  /\ UNCHANGED <<tiles, grid, best_score, best_solution, pc, hist, evaluated, scored, result>>

\* lines 113-118 without the comparison of line 115: every scored grid
\* becomes the best
BtLeaf_always_replace ==
  /\ Running /\ Top.at = "entry"
  /\ \E t \in Times : ~Expired(t) /\ ReadClock(t)
  /\ Top.x = height
  /\ LET score == calculate_score(grid)
     IN IF score.status = "KeyError"
        THEN /\ pc' = "raised"
             /\ stack' = <<>>
             /\ UNCHANGED <<best_score, best_solution, evaluated, scored>>
        ELSE /\ pc' = pc
             /\ stack' = Return
             /\ evaluated' = evaluated + 1
             /\ scored' = Append(scored, grid)
             /\ best_score' = score.score
             /\ best_solution' = SomeSolution(grid)
  /\ UNCHANGED_input
  /\ UNCHANGED <<tiles, grid, hist, result>>

\* lines 113-118: every cell is decided, the grid is scored
BtLeaf ==
  /\ Running /\ Top.at = "entry"
  /\ \E t \in Times : ~Expired(t) /\ ReadClock(t)
  /\ Top.x = height
  /\ LET score == calculate_score(grid)
     IN IF score.status = "KeyError"
        THEN /\ pc' = "raised"
             /\ stack' = <<>>
             /\ UNCHANGED <<best_score, best_solution, evaluated, scored>>
        ELSE /\ pc' = pc
             /\ stack' = Return
             /\ evaluated' = evaluated + 1
             /\ scored' = Append(scored, grid)
             /\ IF ScoreGt(score.score, best_score)
                THEN /\ best_score' = score.score
                     /\ best_solution' = SomeSolution(grid)
                ELSE UNCHANGED <<best_score, best_solution>>
  /\ UNCHANGED_input
  /\ UNCHANGED <<tiles, grid, hist, result>>

\* line 121 calling backtrack(x, 0) in the place of backtrack(x + 1, 0)
BtRowEnd_same_row ==
  /\ Running /\ Top.at = "entry"
  /\ \E t \in Times : ~Expired(t) /\ ReadClock(t)
  /\ Top.x # height /\ Top.y = width
  /\ stack' = Append(SetTop([Top EXCEPT !.at = "row"]), Frame(Top.x, 0))
  /\ UNCHANGED_input
  /\ UNCHANGED <<tiles, grid, best_score, best_solution, pc, hist, evaluated, scored, result>>

\* lines 120-121: the row is decided, backtrack(x + 1, 0) is called
BtRowEnd ==
  /\ Running /\ Top.at = "entry"
  /\ \E t \in Times : ~Expired(t) /\ ReadClock(t)
  /\ Top.x # height /\ Top.y = width
  /\ stack' = Append(SetTop([Top EXCEPT !.at = "row"]), Frame(Top.x + 1, 0))
  /\ UNCHANGED_input
  /\ UNCHANGED <<tiles, grid, best_score, best_solution, pc, hist, evaluated, scored, result>>

\* line 122
BtRowReturn ==
  /\ Running /\ Top.at = "row"
  /\ stack' = Return
  /\ UNCHANGED_input
  /\ UNCHANGED <<tiles, grid, best_score, best_solution, now, pc, hist,
                 evaluated, scored, result>>

\* line 124: the cell is left empty, backtrack(x, y + 1) is called
BtCell ==
  /\ Running /\ Top.at = "entry"
  /\ \E t \in Times : ~Expired(t) /\ ReadClock(t)
  /\ Top.x # height /\ Top.y # width
  /\ stack' = Append(SetTop([Top EXCEPT !.at = "loop", !.i = 1]), Frame(Top.x, Top.y + 1))
  /\ UNCHANGED_input
  /\ UNCHANGED <<tiles, grid, best_score, best_solution, pc, hist, evaluated, scored, result>>

\* lines 126-128: place_tile succeeds, backtrack(x, y + 1) is called
BtPlace ==
  /\ Running /\ Top.at = "loop" /\ Top.i <= Len(tile_order)
  /\ LET r == place_tile(Top.x, Top.y, tile_order[Top.i])
     IN /\ r.ret = "True"
        /\ grid' = r.grid
        /\ tiles' = r.tiles
        /\ stack' = Append(SetTop([Top EXCEPT !.at = "placed"]),
                           [x |-> Top.x, y |-> Top.y + 1, at |-> "entry", i |-> 0,
                            grid0 |-> r.grid, tiles0 |-> r.tiles])
  /\ UNCHANGED_input
  /\ UNCHANGED <<best_score, best_solution, now, pc, hist, evaluated, scored, result>>

\* lines 126-127: place_tile fails, the loop goes on to the next tile type
BtSkip ==
  /\ Running /\ Top.at = "loop" /\ Top.i <= Len(tile_order)
  /\ LET r == place_tile(Top.x, Top.y, tile_order[Top.i])
     IN /\ r.ret = "False"
        /\ grid' = r.grid
        /\ tiles' = r.tiles
  /\ stack' = SetTop([Top EXCEPT !.i = @ + 1])
  /\ UNCHANGED_input
  /\ UNCHANGED <<best_score, best_solution, now, pc, hist, evaluated, scored, result>>

\* line 129: remove_tile after the recursive call has returned
BtRemove ==
  /\ Running /\ Top.at = "placed"
  /\ LET r == remove_tile(Top.x, Top.y)
     IN /\ grid' = r.grid
        /\ tiles' = r.tiles
        /\ IF r.ret = "KeyError"
           THEN pc' = "raised" /\ stack' = <<>>
           ELSE pc' = pc /\ stack' = SetTop([Top EXCEPT !.at = "loop", !.i = @ + 1])
  /\ UNCHANGED_input
  /\ UNCHANGED <<best_score, best_solution, now, hist, evaluated, scored, result>>

\* the for loop of line 126 is exhausted, the invocation returns
BtLoopDone ==
  /\ Running /\ Top.at = "loop" /\ Top.i > Len(tile_order)
  /\ stack' = Return
  /\ UNCHANGED_input
  /\ UNCHANGED <<tiles, grid, best_score, best_solution, now, pc, hist,
                 evaluated, scored, result>>

\* line 132
SolveReturn ==
  /\ pc = "solving" /\ stack = <<>>
  /\ pc' = "done"
  /\ result' = <<best_solution, best_score>>
  /\ UNCHANGED_input
  /\ UNCHANGED <<tiles, grid, best_score, best_solution, now, stack, hist,
                 evaluated, scored>>

SolveNext ==
  \/ SolveCall
  \/ BtDeadline
  \/ BtLeaf
  \/ BtRowEnd
  \/ BtRowReturn
  \/ BtCell
  \/ BtPlace
  \/ BtSkip
  \/ BtRemove
  \/ BtLoopDone
  \/ SolveReturn

SolveSpec == Init /\ [][SolveNext]_vars

\* the interpreter runs the call to its end: no step of solve waits on anything
SolveFairSpec == SolveSpec /\ WF_vars(SolveNext)

(***************************************************************************)
(* Properties of place_tile and remove_tile, checked under Spec.           *)
(***************************************************************************)
Anchors == golden_points \cup DOMAIN silver_points

Count(t, id) == t[id][2]

\* C1: place_tile(x, y, id) returns False and changes neither the grid nor
\* any remaining count whenever (x, y) is a golden point, a silver point, an
\* occupied cell, or the remaining count of id is 0.
C1_PlaceRejects ==
  (/\ hist.op = "place"
   /\ \/ <<hist.x, hist.y>> \in golden_points
      \/ <<hist.x, hist.y>> \in DOMAIN silver_points
      \/ hist.grid0[<<hist.x, hist.y>>] # EmptyStr
      \/ Count(hist.tiles0, hist.id) = 0)
  => (/\ hist.ret = "False"
      /\ grid = hist.grid0
      /\ tiles = hist.tiles0)

\* a place_tile on an occupied, non-anchor cell with a tile type still in stock
C1_Witness ==
  /\ hist.op = "place"
  /\ <<hist.x, hist.y>> \notin Anchors
  /\ hist.grid0[<<hist.x, hist.y>>] # EmptyStr
  /\ Count(hist.tiles0, hist.id) > 0
  /\ hist.ret = "False"

\* C2: a successful place_tile(x, y, id) on an empty non-anchor cell followed
\* by remove_tile(x, y) leaves the cell empty and every remaining count as it
\* was before the place_tile.
C2_RoundTrip ==
  (hist.op = "remove" /\ hist.placed # <<>>)
  => (/\ grid[<<hist.x, hist.y>>] = EmptyStr
      /\ \A id \in DOMAIN tiles : Count(tiles, id) = Count(hist.placed[1].tiles0, id))

\* C3: every tile type's remaining count is >= 0 in every state reachable by
\* place_tile and remove_tile calls.
C3_CountsNonNegative == \A id \in DOMAIN tiles : Count(tiles, id) >= 0

\* a place_tile was refused because the tile type is used up
C3_Witness ==
  /\ hist.op = "place"
  /\ <<hist.x, hist.y>> \notin Anchors
  /\ hist.grid0[<<hist.x, hist.y>>] = EmptyStr
  /\ Count(hist.tiles0, hist.id) = 0
  /\ hist.ret = "False"
  /\ \E c \in DOMAIN grid : grid[c] # EmptyStr

\* C4: no golden-point cell and no silver-point cell holds a tile in any state
\* reachable from the empty grid by place_tile and remove_tile calls.
C4_AnchorsHoldNoTile == \A c \in Anchors : grid[c] = EmptyStr

\* a place_tile on a silver point with a tile type in stock, tiles elsewhere
C4_Witness ==
  /\ hist.op = "place"
  /\ <<hist.x, hist.y>> \in DOMAIN silver_points
  /\ Count(hist.tiles0, hist.id) > 0
  /\ golden_points # {}
  /\ \E c \in DOMAIN grid : grid[c] # EmptyStr

(***************************************************************************)
(* calculate_score and bfs as functions of the grid: the solver is         *)
(* constructed, its grid is set to any arrangement of the tile types of    *)
(* its table that the catalog knows (golden and silver cells included),    *)
(* and calculate_score is called once.                                     *)
(***************************************************************************)
MaxScoreGolden == 3

ScoreTables == {t \in TileTables : \A i \in 1..Len(t) : t[i][1] \in DOMAIN TILE_DIRECTIONS}

\* the grids calculate_score is applied to
Arrangements(w, h, tiles_in) ==
  [Cells(w, h) -> {EmptyStr} \cup {GridStore(tiles_in[i][1]) : i \in 1..Len(tiles_in)}]

ScoreInit ==
  /\ pc = "idle"
  /\ \E d \in Dims :
       \E golden_in \in SeqsUpTo(Cells(d[1], d[2]), MaxScoreGolden) :
         \E silver_in \in SilverInputs(d[1], d[2]) :
           \E tiles_in \in ScoreTables :
             /\ golden_input = golden_in
             /\ width = d[1]
             /\ height = d[2]
             /\ golden_points = Range(golden_in)
             /\ golden_order \in Orders(Range(golden_in))
             /\ silver_points = SilverDict(silver_in)
             /\ tiles = TileDict(tiles_in)
             /\ initial_tiles = TileDict(tiles_in)
             /\ tile_order = [i \in 1..Len(tiles_in) |-> tiles_in[i][1]]
             /\ grid \in Arrangements(d[1], d[2], tiles_in)
  /\ best_score = NegInf
  /\ best_solution = NoneSolution
  /\ start_time = 0
  /\ now = 0
  /\ stack = <<>>
  /\ hist = NoCall
  /\ evaluated = 0
  /\ scored = <<>>
  /\ result = <<>>

CalculateScore ==
  /\ pc = "idle"
  /\ pc' = "scored"
  /\ result' = <<calculate_score(grid)>>
  /\ UNCHANGED_input
  /\ UNCHANGED <<tiles, grid, best_score, best_solution, now, stack, hist, evaluated, scored>>

ScoreNext == CalculateScore

ScoreSpec == ScoreInit /\ [][ScoreNext]_vars

(***************************************************************************)
(* Properties of solve, checked under SolveSpec and SolveFairSpec.         *)
(***************************************************************************)
\* an invocation of backtrack returns: its frame leaves the stack
BacktrackReturns == Running /\ pc' = "solving" /\ Len(stack') < Len(stack)

\* C5: every invocation of backtrack, run to completion or cut short by the
\* deadline, returns with the live grid and every remaining count equal to
\* their values at its entry; so solve returns with the empty grid and the
\* initial counts.
C5_BacktrackRestores ==
  [][BacktrackReturns => (grid' = Top.grid0 /\ tiles' = Top.tiles0)]_vars

\* the budget was exceeded at some deadline check of this search
CutShort == Expired(now)

DistinctGolden == Cardinality(golden_points)

\* C8: with at least two distinct golden points, solve run to completion
\* returns no solution and score negative infinity.
C8_MultiAnchorNegInf ==
  (pc = "done" /\ DistinctGolden >= 2 /\ ~CutShort)
  => result = <<NoneSolution, NegInf>>

\* width=3, height=1, golden points {(0,0), (0,2)}, no silver point, one tile
\* type of cost 1 and count 5: both complete grids were scored
C8_Witness ==
  /\ pc = "done"
  /\ ~CutShort
  /\ width = 3 /\ height = 1
  /\ golden_points = {<<0, 0>>, <<0, 2>>}
  /\ DOMAIN silver_points = {}
  /\ tile_order = << <<"C">> >>
  /\ tiles[<<"C">>] = <<1, 5>>
  /\ evaluated = 2
  /\ result = <<NoneSolution, NegInf>>

\* the golden-point input names one coordinate, more than once
DuplicateGolden == Len(golden_input) >= 2 /\ DistinctGolden = 1

\* C9: when the golden-point input names the same coordinate twice, every
\* complete grid scores 0 and solve returns score 0.
C9_DuplicateGoldenScoresZero ==
  DuplicateGolden
  => (/\ calculate_score(grid) = ScoreValue(Fin(0))
      /\ pc = "done" => result[2] = Fin(0))

\* C9 as amended: ... every complete grid scores 0, and solve returns score 0
\* unless the deadline cut the search before any complete grid was scored.
C9_DuplicateGoldenScoresZeroIfScored ==
  DuplicateGolden
  => (/\ calculate_score(grid) = ScoreValue(Fin(0))
      /\ (pc = "done" /\ evaluated > 0) => result[2] = Fin(0))

\* solve has returned 0 with tiles having been placed and scored on the way
C9_Witness ==
  /\ DuplicateGolden
  /\ pc = "done"
  /\ evaluated > 1
  /\ result[2] = Fin(0)
  /\ result[1] # NoneSolution

\* C10: solve terminates for every input and returns its (solution, score)
\* pair without raising.
C10_SolveReturns == <>(pc = "done")

(***************************************************************************)
(* Properties of bfs and calculate_score.                                  *)
(***************************************************************************)
\* the pairs calculate_score asks bfs about, in the order it asks
GoldenPairs == Combinations(golden_order, 1, 2)

NoPathAt(k) == bfs(grid, GoldenPairs[k][1], GoldenPairs[k][2]).status = "None"

\* C6: calculate_score returns negative infinity whenever bfs reports no path
\* for at least one pair of distinct golden points, whatever the other pairs
\* and the tiles on the grid.  Checked under ScoreSpec.
C6_NoPathScoresNegInf ==
  (pc = "scored" /\ \E k \in 1..Len(GoldenPairs) : NoPathAt(k))
  => result = <<ScoreValue(NegInf)>>

\* the first pair asked has a path, a later pair has none
C6_Witness ==
  /\ pc = "scored"
  /\ Len(GoldenPairs) >= 2
  /\ ~NoPathAt(1)
  /\ \E k \in 2..Len(GoldenPairs) : NoPathAt(k)
  /\ result = <<ScoreValue(NegInf)>>

\* C7: in every grid reachable during the search, bfs between two distinct
\* golden points returns no path, whatever tiles lie on the other cells.
\* Checked under SolveSpec.
C7_NoPathBetweenGolden ==
  \A a \in golden_points : \A b \in golden_points \ {a} : bfs(grid, a, b) = BfsNone

\* tiles lie on every cell between and around two golden points
C7_Witness ==
  /\ DistinctGolden >= 2
  /\ \A c \in DOMAIN grid \ Anchors : grid[c] \in DOMAIN TILE_DIRECTIONS
  /\ \E c \in DOMAIN grid : grid[c] # EmptyStr

(***************************************************************************)
(* The cutoff, the determinism and the best solution of solve.             *)
(***************************************************************************)
\* the last deadline check found the elapsed time above the budget, and so
\* will every later one
PastBudget == now - start_time > time_limit

\* a step that puts a tile on an empty cell of the live grid
PlacesTile == \E c \in DOMAIN grid : grid[c] = EmptyStr /\ grid'[c] # EmptyStr

BestUnchanged == best_score' = best_score /\ best_solution' = best_solution

\* C11: once a deadline check has found the elapsed time above the budget, no
\* later step of the search places a tile, scores a complete grid or changes
\* best_solution or best_score; solve returns the best recorded before.
C11_NothingAfterCutoff ==
  [][PastBudget => (/\ ~PlacesTile
                    /\ evaluated' = evaluated
                    /\ BestUnchanged
                    /\ pc' = "done" => result' = <<best_solution, best_score>>)]_vars

\* C11 as amended: once a deadline check has found the elapsed time above the
\* budget, no later step scores a complete grid or changes best_solution or
\* best_score, and solve returns the best recorded before; the invocations
\* already in their for loop still place and remove tiles.
C11_NoScoringAfterCutoff ==
  [][PastBudget => (/\ evaluated' = evaluated
                    /\ BestUnchanged
                    /\ pc' = "done" => result' = <<best_solution, best_score>>)]_vars

\* the search was cut after a best solution had been recorded, a tile is on the
\* grid after the cutoff
C11_Witness ==
  /\ PastBudget
  /\ Running
  /\ best_solution # NoneSolution
  /\ evaluated > 1
  /\ \E c \in DOMAIN grid : grid[c] # EmptyStr

\* what solve returns when the budget is never exceeded, as a function of the
\* constructor's arguments alone: neither the iteration order of the golden
\* set nor the readings of the clock enter it
SolveResult ==
  IF Cardinality(Range(golden_input)) >= 2
  THEN <<NoneSolution, NegInf>>
  ELSE <<SomeSolution([c \in Cells(width, height) |-> EmptyStr]), Fin(0)>>

\* C12: with the same input and a budget that is never exceeded, two runs of
\* solve return the same best score and the same occupied cells with the same
\* tile types: the pair returned is a function of the input.
C12_SameInputSameResult ==
  (pc = "done" /\ ~PastBudget) => result = SolveResult

\* a run that returned after the clock had advanced, with the golden set
\* iterated in another order than the input lists it
C12_Witness ==
  /\ pc = "done"
  /\ ~PastBudget
  /\ now > start_time
  /\ Len(golden_input) = 2
  /\ golden_order # golden_input
  /\ Range(golden_order) = Range(golden_input)
  /\ evaluated > 1
  /\ result = SolveResult

\* the grid a solution holds when it is read
SolutionGrid(s) == IF s[1] = LiveGrid THEN grid ELSE s[1]

\* C13: after a grid has been recorded as best_solution, every later
\* place_tile and remove_tile on the live grid leaves best_solution unchanged:
\* it equals the live grid as it was at the last best update.
C13_BestIsSnapshot ==
  [][IF best_score' # best_score
     THEN SolutionGrid(best_solution)' = grid
     ELSE best_solution # NoneSolution =>
            SolutionGrid(best_solution)' = SolutionGrid(best_solution)]_vars

\* tiles lie on the live grid after the empty grid was recorded as the best
C13_Witness ==
  /\ best_solution # NoneSolution
  /\ \E c \in DOMAIN grid : grid[c] # EmptyStr
  /\ \A c \in DOMAIN grid : SolutionGrid(best_solution)[c] = EmptyStr

(***************************************************************************)
(* The value of calculate_score, checked under ScoreSpec.                  *)
(***************************************************************************)
PathOf(k) == bfs(grid, GoldenPairs[k][1], GoldenPairs[k][2])

\* bonus of the coordinate if it is a silver point, minus the unit cost of
\* the tile on it if it holds one
CoordinateValue(c) ==
  (IF c \in DOMAIN silver_points THEN silver_points[c] ELSE 0)
  - (IF grid[c] # EmptyStr THEN tiles[grid[c]][1] ELSE 0)

RECURSIVE PathValue(_, _)
PathValue(path, i) ==
  IF i > Len(path) THEN 0 ELSE CoordinateValue(path[i]) + PathValue(path, i + 1)

RECURSIVE ReferenceScore(_)
ReferenceScore(k) ==
  IF k > Len(GoldenPairs) THEN 0 ELSE PathValue(PathOf(k).path, 1) + ReferenceScore(k + 1)

AllPairsHavePaths == \A k \in 1..Len(GoldenPairs) : PathOf(k).status = "path"

\* C14: when every golden pair has a path, calculate_score is the sum, over
\* all coordinates of all paths with multiplicity, of the bonus of each silver
\* coordinate minus the unit cost of the tile on each coordinate holding one.
C14_ScoreIsReference ==
  (pc = "scored" /\ AllPairsHavePaths) => result = <<ScoreValue(Fin(ReferenceScore(1)))>>

\* two paths share a coordinate and a path runs over a silver point
C14_Witness ==
  /\ pc = "scored"
  /\ Len(GoldenPairs) >= 2
  /\ AllPairsHavePaths
  /\ \E j, k \in 1..Len(GoldenPairs) :
       j < k /\ Range(PathOf(j).path) \cap Range(PathOf(k).path) # {}
  /\ \E k \in 1..Len(GoldenPairs) : Range(PathOf(k).path) \cap DOMAIN silver_points # {}
  /\ result = <<ScoreValue(Fin(ReferenceScore(1)))>>

\* every coordinate of a path bfs returns holds a tile
PathsRunOverTiles ==
  \A k \in 1..Len(GoldenPairs) : \A c \in Range(PathOf(k).path) : grid[c] # EmptyStr

(***************************************************************************)
(* Tile identifiers and the catalog, checked under SolveSpec.              *)
(***************************************************************************)
UnknownTileIds == DOMAIN tiles \ DOMAIN TILE_DIRECTIONS

\* the tile type the invocation of frame f has placed on its cell
PlacedBy(f) == tile_order[f.i]

\* C15: a tile table with an identifier absent from TILE_DIRECTIONS is
\* rejected before the search starts; solve never places a tile whose
\* identifier is not in the catalog.
C15_UnknownIdsRejected ==
  /\ UnknownTileIds # {} => pc \notin {"solving", "done"}
  /\ \A i \in 1..Len(stack) :
       stack[i].at = "placed" => PlacedBy(stack[i]) \in DOMAIN TILE_DIRECTIONS

(***************************************************************************)
(* bfs as a function of the grid, the start and the end: the solver is     *)
(* constructed, its grid is set to any arrangement of catalog tiles, and   *)
(* bfs is called once with any two coordinates of the grid.                *)
(***************************************************************************)
BfsDims == {<<3, 1>>, <<2, 2>>, <<3, 2>>}

BfsTables ==
  { << <<<<"3">>, 1, 1>>, <<<<"C", "3">>, 2, 1>> >>,
    << <<<<"C">>, 1, 1>>, <<<<"5">>, 1, 1>> >>,
    << <<<<"6">>, 1, 1>>, <<<<"7">>, 1, 1>> >> }

BfsInit ==
  /\ pc = "idle"
  /\ \E d \in BfsDims :
       \E tiles_in \in BfsTables :
         /\ width = d[1]
         /\ height = d[2]
         /\ tiles = TileDict(tiles_in)
         /\ initial_tiles = TileDict(tiles_in)
         /\ tile_order = [i \in 1..Len(tiles_in) |-> tiles_in[i][1]]
         /\ grid \in Arrangements(d[1], d[2], tiles_in)
  /\ golden_input = <<>>
  /\ golden_points = {}
  /\ golden_order = <<>>
  /\ silver_points = SilverDict(<<>>)
  /\ best_score = NegInf
  /\ best_solution = NoneSolution
  /\ start_time = 0
  /\ now = 0
  /\ stack = <<>>
  /\ hist = NoCall
  /\ evaluated = 0
  /\ scored = <<>>
  /\ result = <<>>

BfsCall(start, end) ==
  /\ pc = "idle"
  /\ pc' = "searched"
  /\ result' = <<start, end, bfs(grid, start, end)>>
  /\ UNCHANGED_input
  /\ UNCHANGED <<tiles, grid, best_score, best_solution, now, stack, hist, evaluated, scored>>

BfsNext == \E start \in DOMAIN grid : \E end \in DOMAIN grid : BfsCall(start, end)

BfsSpec == BfsInit /\ [][BfsNext]_vars

\* the cells one step away from c: c plus an in-bounds offset of the tile on c
Moves(c) ==
  IF grid[c] = EmptyStr THEN {}
  ELSE {<<c[1] + d[1], c[2] + d[2]>> : d \in Range(TILE_DIRECTIONS[grid[c]])} \cap DOMAIN grid

\* the cells at most n steps away from start
RECURSIVE Within(_, _)
Within(start, n) ==
  IF n = 0 THEN {start}
  ELSE LET W == Within(start, n - 1) IN W \cup UNION {Moves(c) : c \in W}

Reachable(start, end) == end \in Within(start, Cardinality(DOMAIN grid))

Hops(start, end) ==
  CHOOSE n \in 0..Cardinality(DOMAIN grid) :
    end \in Within(start, n) /\ (n = 0 \/ end \notin Within(start, n - 1))

\* path lists the cells left, in order, when walking from start to end
IsWalk(path, start, end) ==
  IF path = <<>> THEN start = end
  ELSE /\ path[1] = start
       /\ \A i \in 1..(Len(path) - 1) : path[i + 1] \in Moves(path[i])
       /\ end \in Moves(path[Len(path)])

\* C16: bfs(start, end) terminates; it returns a path exactly when end is
\* reachable from start by steps along in-bounds offsets of the tiles stood
\* on, the path returned has the least number of hops, and otherwise bfs
\* reports no path.
C16_BfsShortestPath ==
  pc = "searched" =>
    LET start == result[1]
        end == result[2]
        found == result[3]
    IN /\ found.status \in {"path", "None"}
       /\ found.status = "path" <=> Reachable(start, end)
       /\ found.status = "path" =>
            /\ IsWalk(found.path, start, end)
            /\ Len(found.path) = Hops(start, end)

\* a path of three hops or more was returned where a longer walk exists too
C16_Witness ==
  /\ pc = "searched"
  /\ result[3].status = "path"
  /\ Len(result[3].path) >= 3
  /\ \E c \in DOMAIN grid : c \notin Range(result[3].path) /\ c # result[2]
                            /\ Reachable(result[1], c) /\ Reachable(c, result[2])

(***************************************************************************)
(* The grids solve scores, checked under SolveSpec.                        *)
(***************************************************************************)
\* the complete assignments of a tile type or nothing to every cell that
\* leave golden and silver cells empty and use no tile type more often than
\* its initial count
Assignments ==
  {a \in [DOMAIN grid -> {EmptyStr} \cup DOMAIN initial_tiles] :
     /\ \A c \in Anchors : a[c] = EmptyStr
     /\ \A id \in DOMAIN initial_tiles :
          Cardinality({c \in DOMAIN grid : a[c] = id}) <= Count(initial_tiles, id)}

\* the grid that holds assignment a
GridOf(a) == [c \in DOMAIN grid |-> GridStore(a[c])]

TimesScored(g) == Cardinality({i \in 1..Len(scored) : scored[i] = g})

\* C17: when the budget is never exceeded, solve scores every complete
\* assignment that leaves golden and silver cells empty and uses no tile type
\* more often than its initial count, each exactly once, and returns the
\* maximum of calculate_score over them.
C17_ExhaustiveSearch ==
  (pc = "done" /\ ~PastBudget) =>
    /\ \A a \in Assignments : TimesScored(GridOf(a)) = 1
    /\ Len(scored) = Cardinality(Assignments)
    /\ \A a \in Assignments : ~ScoreGt(calculate_score(GridOf(a)).score, result[2])
    /\ \E a \in Assignments : calculate_score(GridOf(a)).score = result[2]

(***************************************************************************)
(* The depth of the recursion and the best pair, checked under SolveSpec.  *)
(***************************************************************************)
\* the number of invocations of backtrack in progress
Depth == Len(stack)

\* C18: the depth of the backtrack recursion never exceeds H*W.
C18_DepthAtMostCells == Depth <= height * width

\* C18 as amended: the depth of the backtrack recursion never exceeds
\* H*(W+1) + 1: one invocation per cell, one more per row for y = W, and the
\* invocation with x = H that scores the grid.
C18_DepthAtMostCellsAndRowEnds == Depth <= height * (width + 1) + 1

\* the invocation that scores the grid runs at the greatest depth
C18_Witness ==
  /\ Running
  /\ Top.x = height
  /\ Depth = height * (width + 1) + 1

\* the running invocation has decided every cell and is about to score the grid
AtCompleteGrid == Running /\ Top.at = "entry" /\ Top.x = height

\* C19: best_score never decreases and best_solution is replaced only when a
\* complete grid scores strictly higher than best_score; best_solution is
\* none exactly when best_score is negative infinity, and otherwise
\* calculate_score on best_solution equals best_score.
C19_BestPairConsistent ==
  /\ [][/\ ~ScoreGt(best_score, best_score')
        /\ best_solution' # best_solution =>
             /\ AtCompleteGrid
             /\ ScoreGt(calculate_score(grid).score, best_score)
             /\ best_score' = calculate_score(grid).score]_vars
  /\ [](best_solution = NoneSolution <=> best_score = NegInf)
  /\ [](best_solution # NoneSolution =>
          calculate_score(SolutionGrid(best_solution)) = ScoreValue(best_score))

\* a best solution is held while later complete grids were scored and tiles
\* lie on the live grid
C19_Witness ==
  /\ Running
  /\ best_solution # NoneSolution
  /\ best_score = Fin(0)
  /\ evaluated > 2
  /\ \E c \in DOMAIN grid : grid[c] # EmptyStr

\* the number of cells of grid g holding the identifier id
Placed(g, id) == Cardinality({c \in DOMAIN g : g[c] = id})

\* C20: for every tile type, the remaining count plus the number of grid
\* cells holding that type equals the count the type had at construction.
C20_TilesConserved ==
  \A id \in DOMAIN tiles :
    Count(tiles, id) + Placed(grid, id) = Count(initial_tiles, id)

====
